---- MODULE Spec2Model ----
(***************************************************************************)
(* to-uni: replacement of escape-sequence tokens in a byte stream.         *)
(* The model follows one process invocation: Configuration::from_args,    *)
(* conversion::run (automaton, sink and source opening, the chunked scan  *)
(* driven segment by segment, Output::close) and handle_program_exit.     *)
(* Spec follows whole runs; SpecConfig follows Configuration::from_args   *)
(* alone over every file system and invocation of the bounds.            *)
(***************************************************************************)
EXTENDS Integers, Sequences, FiniteSets, TLC

VARIABLES
    pc,         \* position of the single flow of control
    fs,         \* the file system met: current directory, configuration files
    args,       \* config::Args as decoded by docopt
    input,      \* config::Input built by Input::from_args
    output,     \* config::Output built by Output::from_args
    cfgPath,    \* config_file_path of the configuration file opened
    rawConfig,  \* Configuration.raw_config: the YAML document read
    patterns,   \* Configuration.patterns: bare token -> replacement
    keyOrder,   \* iteration order of the pattern HashMap (keys())
    src,        \* the bytes the opened source will deliver
    rdPos,      \* number of source bytes delivered to the scanner so far
    blocks,     \* lengths of the blocks delivered so far
    eof,        \* the source has reported end-of-data
    ast,        \* scanner: automaton traversal state
    carry,      \* scanner: bytes read but not yet classified
    cursor,     \* scanner: stream offset of the first carried byte
    queue,      \* scanner: segments recognised but not yet handed over
    segs,       \* segments handed to the driver, in emission order
    sink,       \* bytes accepted by the sink
    nWrites,    \* write_all calls issued by the driver
    inState,    \* source handle: "none", "open", "closed"
    outState,   \* sink handle: "none", "open", "flushed", "closed"
    dest,       \* in-place destination path: "orig", "missing", "new"
    bak,        \* backup path: "none", "orig"
    tmp,        \* temporary path: "none", "file", "moved"
    err,        \* the UniError the run failed with, or NoError
    failedAt,   \* the step that produced err
    exit        \* process exit status, NoExit while running

vars == <<pc, fs, args, input, output, cfgPath, rawConfig, patterns, keyOrder, src, rdPos, blocks, eof,
          ast, carry, cursor, queue, segs, sink, nWrites, inState, outState,
          dest, bak, tmp, err, failedAt, exit>>

----------------------------------------------------------------------------
(* Bounds of the model *)

\* longest stream delivered on standard input
MaxLen == 4
\* longest input file
MaxFileLen == 3
\* capacity of one block read (StreamChunks::with_capacity(.., 512), scaled)
BlockCap == 4
\* deepest directory below the file-system root
MaxDepth == 2

----------------------------------------------------------------------------
(* Bytes *)

\* '\\', the escape marker of format!("\\{}", p)
Esc == 92
\* 'a' and 'b', the token bytes of the scenarios
Letters == <<97, 98>>
LetterA == Letters[1]
LetterB == Letters[2]
Alphabet == {Esc, LetterA, LetterB}

RECURSIVE SeqsUpTo(_, _)
SeqsUpTo(S, n) ==
    IF n = 0 THEN {<<>>}
    ELSE LET shorter == SeqsUpTo(S, n - 1)
         IN shorter \cup {Append(s, x) : s \in {t \in shorter : Len(t) = n - 1}, x \in S}

\* the contents a source of the given kind may deliver
Inputs(kind) == SeqsUpTo(Alphabet, IF kind = "Stdin" THEN MaxLen ELSE MaxFileLen)

IsSuffix(s, t) == Len(s) <= Len(t) /\ SubSeq(t, Len(t) - Len(s) + 1, Len(t)) = s
IsPrefix(s, t) == Len(s) <= Len(t) /\ SubSeq(t, 1, Len(s)) = s

----------------------------------------------------------------------------
(* error.rs *)

NoError == [major |-> -1, minor |-> -1, data |-> "None"]
NoExit == -1

\* code::fsio, code::internal, code::usage
FSIO_INPUT == 2
FSIO_OUTPUT == 3
FSIO_OUTPUT_BACKUP == 4
FSIO_CONFIG == 5
INTERNAL_MISC == 8
MISSING_OUTPUT_FILE_NAME == 4
MISSING_OUTPUT == 5
INPUT_NOT_A_FILE == 6
NO_CONFIG_FILE == 7
INVALID_CONFIG_FILE == 8

\* UniErrorData::default_code_major_minor: <<major, minor>>
default_code_major_minor(data) ==
    CASE data = "Io" -> <<1, 0>>
      [] data = "FsIo" -> <<2, 0>>
      [] data = "Internal" -> <<9, 0>>
      [] data = "Usage" -> <<0, 1>>
      [] data = "YamlScan" -> <<3, 0>>

\* a variant with the two digits exchanged
error_code_swapped(e) == (e.major + e.minor * 10) % 256
\* UniError::error_code, u8 arithmetic
error_code(e) == (e.major * 10 + e.minor) % 256

\* UniError::new: the major of the data, the given minor
UniError_new(minor, data) ==
    [major |-> default_code_major_minor(data)[1], minor |-> minor, data |-> data]

\* UniError::with_minor
with_minor(e, minor) == [e EXCEPT !.minor = minor]

\* error::usage: `let (minor,major) = data.default_code_major_minor()`
usage ==
    LET c == default_code_major_minor("Usage")
    IN [major |-> c[2], minor |-> c[1], data |-> "Usage"]

\* impl From<io::Error> for UniError
from_io_error ==
    LET c == default_code_major_minor("Io")
    IN [major |-> c[1], minor |-> c[2], data |-> "Io"]

\* impl DetailedFrom<io::Error, (String, u8)>
detailed_from_io(minor) ==
    [major |-> default_code_major_minor("FsIo")[1], minor |-> minor, data |-> "FsIo"]

\* impl DetailedFrom<String, u8> and DetailedFrom<&str, u8>
detailed_from_str(minor) ==
    [major |-> default_code_major_minor("Internal")[1], minor |-> minor,
     data |-> "Internal"]

\* impl DetailedFrom<yaml::ScanError, String>
detailed_from_yaml ==
    LET c == default_code_major_minor("YamlScan")
    IN [major |-> c[1], minor |-> c[2], data |-> "YamlScan"]

----------------------------------------------------------------------------
(* config.rs: Args, Input, Output, Configuration::from_args *)

\* Option<T>
None == <<>>
Some(x) == <<x>>

\* std::path: a path is absolute or relative and has its normal components
Abs(comps) == [abs |-> TRUE, comps |-> comps]
Rel(comps) == [abs |-> FALSE, comps |-> comps]
Front(q) == SubSeq(q, 1, Len(q) - 1)
Last(q) == q[Len(q)]

\* Path::parent: the path without its final component; the root and the
\* empty path have none
parent(p) ==
    IF p.comps = <<>> THEN None
    ELSE Some([abs |-> p.abs, comps |-> Front(p.comps)])

\* Path::file_name: the final component
file_name(p) == IF p.comps = <<>> THEN None ELSE Some(Last(p.comps))

\* PathBuf::push of a relative one-component name
push(p, name) == [abs |-> p.abs, comps |-> Append(p.comps, name)]

\* Path::with_file_name: set_file_name pops the final component when there
\* is one, then pushes the name
with_file_name(p, name) ==
    IF file_name(p) = None THEN push(p, name)
    ELSE push(parent(p)[1], name)

\* the directories of the file system: one chain below the root
DirNames == <<"a", "b", "c", "d">>
Dirs == {SubSeq(DirNames, 1, n) : n \in 0..MaxDepth}

\* the file names of an invocation
CFGNAME == "to-uni.yml"
InName == "in.tex"
OutName == "out"

\* the file system an invocation meets: the current directory, and for each
\* directory what opening its CFGNAME answers
FsSet ==
    [cwd : Dirs, cfg : [Dirs -> {"file", "absent", "ioerr"}]]

\* the file system of the conversion runs: to-uni.yml in the current
\* directory or nowhere
RunFsSet ==
    {f \in FsSet :
        /\ f.cwd = SubSeq(DirNames, 1, 1)
        /\ \A d \in Dirs : d # f.cwd => f.cfg[d] = "absent"}

\* docopt: to-uni [options] (<input>|[-]) [<output>|--stdout]; --no-backup is
\* read by the in-place conversion alone and is varied only there
ArgsOver(inputs, outputs, configs) ==
    {a \in [arg_input : inputs, arg_output : outputs, flag_config : configs,
            flag_config_name : {CFGNAME},
            flag_stdout : BOOLEAN, flag_no_backup : BOOLEAN] :
        /\ ~(a.arg_output # None /\ a.flag_stdout)
        /\ a.flag_no_backup =>
              (a.arg_input # None /\ a.arg_output = None /\ ~a.flag_stdout)}

\* the invocations of the conversion runs
ArgsSet ==
    ArgsOver({None, Some(Rel(<<InName>>))}, {None, Some(Rel(<<OutName>>))},
             {None})

\* the invocations Configuration::from_args is examined on, in file system f:
\* <input> and <output> absolute or relative to the current directory,
\* --config naming a file of any directory
InputPaths(f) ==
    {Abs(Append(d, InName)) : d \in Dirs} \cup
    {Rel(Append(SubSeq(d, Len(f.cwd) + 1, Len(d)), InName)) :
        d \in {e \in Dirs : Len(e) >= Len(f.cwd)}}
OutputPaths(f) ==
    {Abs(<<>>), Rel(<<>>), Rel(<<OutName>>)} \cup {Abs(Append(d, OutName)) : d \in Dirs}
ConfigPaths(f) == {Abs(Append(d, CFGNAME)) : d \in Dirs}
ConfigArgsSet(f) ==
    ArgsOver({None} \cup {Some(q) : q \in InputPaths(f)},
             {None} \cup {Some(q) : q \in OutputPaths(f)},
             {None} \cup {Some(q) : q \in ConfigPaths(f)})

NoOutput == [kind |-> "None", backup |-> FALSE, path |-> Rel(<<>>)]

\* the pattern tables a configuration file may hold (bare token -> replacement)
Alpha == <<206, 177>>
Beta == <<206, 178>>
TablePrefix == (<<LetterA>> :> Alpha) @@ (<<LetterA, LetterB>> :> Beta)
TableInner == (<<LetterA>> :> Alpha) @@ (<<Esc, LetterA, LetterB>> :> Beta)
TablePlain == (<<LetterA>> :> Alpha) @@ (<<LetterB>> :> Beta)
Tables == {TablePlain, TablePrefix, TableInner}

\* the orders in which HashMap::keys() may deliver the keys of a table
KeyOrders(t) ==
    {o \in [1..Cardinality(DOMAIN t) -> DOMAIN t] :
        \A i, j \in DOMAIN o : i # j => o[i] # o[j]}

\* a failing step: the error is returned up to main
Fail(e, at) ==
    /\ err' = e
    /\ failedAt' = at
    /\ pc' = "Exit"

\* Input::verify_input_path, on the outcome of fs::metadata
verify_input_path(md) ==
    CASE md = "ioerr" -> detailed_from_io(FSIO_INPUT)
      [] md = "notfile" -> with_minor(usage, INPUT_NOT_A_FILE)
      [] md = "file" -> NoError

MetadataOutcomes == {"file", "notfile", "ioerr"}

\* Input::from_args
InputFromArgs ==
    /\ pc = "InputFromArgs"
    /\ IF args.arg_input # None
       THEN \E md \in MetadataOutcomes :
              IF verify_input_path(md) = NoError
              THEN /\ input' = "File"
                   /\ pc' = "OutputFromArgs"
                   /\ UNCHANGED <<err, failedAt>>
              ELSE /\ Fail(verify_input_path(md),
                           IF md = "ioerr" THEN "verify_input" ELSE "usage")
                   /\ UNCHANGED input
       ELSE /\ input' = "Stdin"
            /\ pc' = "OutputFromArgs"
            /\ UNCHANGED <<err, failedAt>>
    /\ UNCHANGED <<fs, cfgPath, rawConfig>>
    /\ UNCHANGED <<args, output, patterns, keyOrder, src, rdPos, blocks, eof, ast,
                   carry, cursor, queue, segs, sink, nWrites, inState, outState,
                   dest, bak, tmp, exit>>

\* Output::check_output_path, on what the file system answers for <output>:
\* stat is the outcome of fs::metadata(<output>), dir_stat that of its parent
\* directory; the result is the error, or the path of Output::OtherFile
check_output_path(raw_path, stat, dir_stat) ==
    CASE stat = "dir" ->
           IF args.arg_input # None /\ file_name(args.arg_input[1]) # None
           THEN [err |-> NoError,
                 path |-> with_file_name(raw_path,
                                         file_name(args.arg_input[1])[1])]
           ELSE [err |-> with_minor(usage, MISSING_OUTPUT_FILE_NAME),
                 path |-> raw_path]
      [] stat = "file" -> [err |-> NoError, path |-> raw_path]
      [] stat = "other" ->
           [err |-> detailed_from_str(INTERNAL_MISC), path |-> raw_path]
      [] stat = "ioerr" ->
           [err |-> detailed_from_io(FSIO_OUTPUT), path |-> raw_path]
      [] stat = "notfound" ->
           CASE parent(raw_path) = None ->
                  [err |-> detailed_from_io(FSIO_OUTPUT), path |-> raw_path]
             [] parent(raw_path) # None /\ dir_stat = "ioerr" ->
                  [err |-> detailed_from_io(FSIO_OUTPUT), path |-> raw_path]
             [] parent(raw_path) # None /\ dir_stat = "dir" ->
                  [err |-> NoError, path |-> raw_path]
             [] parent(raw_path) # None /\ dir_stat = "notdir" ->
                  [err |-> with_minor(usage, INTERNAL_MISC), path |-> raw_path]

\* what fs::metadata may answer for <output>: the root is a directory, the
\* empty path names nothing
StatOutcomes(raw_path) ==
    CASE raw_path = Abs(<<>>) -> {"dir", "ioerr"}
      [] raw_path = Rel(<<>>) -> {"notfound"}
      [] OTHER -> {"dir", "file", "other", "ioerr", "notfound"}
ParentOutcomes == {"ioerr", "dir", "notdir"}

\* Output::from_args
OutputFromArgs ==
    /\ pc = "OutputFromArgs"
    /\ \/ /\ args.flag_stdout
          /\ output' = [kind |-> "Stdout", backup |-> FALSE, path |-> Rel(<<>>)]
          /\ pc' = "OpenConfig"
          /\ UNCHANGED <<err, failedAt>>
       \/ /\ ~args.flag_stdout /\ args.arg_output # None
          /\ \E stat \in StatOutcomes(args.arg_output[1]),
                dir_stat \in ParentOutcomes :
               LET r == check_output_path(args.arg_output[1], stat, dir_stat)
               IN /\ stat # "notfound" => dir_stat = "dir"
                  /\ IF r.err = NoError
                     THEN /\ output' = [kind |-> "OtherFile", backup |-> FALSE,
                                        path |-> r.path]
                          /\ pc' = "OpenConfig"
                          /\ UNCHANGED <<err, failedAt>>
                     ELSE /\ Fail(r.err, "check_output")
                          /\ UNCHANGED output
       \/ /\ ~args.flag_stdout /\ args.arg_output = None /\ args.arg_input # None
          /\ \E md \in MetadataOutcomes :
               IF verify_input_path(md) = NoError
               THEN /\ output' = [kind |-> "InPlace",
                                  backup |-> ~args.flag_no_backup,
                                  path |-> args.arg_input[1]]
                    /\ pc' = "OpenConfig"
                    /\ UNCHANGED <<err, failedAt>>
               ELSE /\ Fail(verify_input_path(md),
                            IF md = "ioerr" THEN "verify_input" ELSE "usage")
                    /\ UNCHANGED output
       \/ /\ ~args.flag_stdout /\ args.arg_output = None /\ args.arg_input = None
          /\ Fail(with_minor(usage, MISSING_OUTPUT), "usage")
          /\ UNCHANGED output
    /\ UNCHANGED <<fs, cfgPath, rawConfig>>
    /\ UNCHANGED <<args, input, patterns, keyOrder, src, rdPos, blocks, eof, ast,
                   carry, cursor, queue, segs, sink, nWrites, inState, outState,
                   dest, bak, tmp, exit>>

\* the absolute directory a directory path names
Resolve(p) == IF p.abs THEN p.comps ELSE fs.cwd \o p.comps

\* Input::directory, on the outcome of env::current_dir
directory(cwd) ==
    IF input = "Stdin"
    THEN IF cwd = "ioerr" THEN [err |-> from_io_error, path |-> Rel(<<>>)]
         ELSE [err |-> NoError, path |-> Abs(fs.cwd)]
    ELSE IF parent(args.arg_input[1]) = None
         THEN [err |-> detailed_from_str(INTERNAL_MISC), path |-> Rel(<<>>)]
         ELSE [err |-> NoError, path |-> parent(args.arg_input[1])[1]]

\* the loop of open_config_file from dir_path: the candidate is opened, a
\* failure other than NotFound is returned, NotFound moves on to
\* dir_path.parent() and ends the search when there is none
RECURSIVE search_upwards(_)
search_upwards(dir_path) ==
    LET config_file_candidate == push(dir_path, args.flag_config_name)
        opened == fs.cfg[Resolve(dir_path)]
    IN CASE opened = "file" ->
              [err |-> NoError, path |-> config_file_candidate]
         [] opened = "ioerr" ->
              [err |-> detailed_from_io(FSIO_CONFIG),
               path |-> config_file_candidate]
         [] opened = "absent" ->
              IF parent(dir_path) # None
              THEN search_upwards(parent(dir_path)[1])
              ELSE [err |-> with_minor(usage, NO_CONFIG_FILE),
                    path |-> config_file_candidate]

\* Configuration::open_config_file
open_config_file(cwd) ==
    IF directory(cwd).err # NoError THEN directory(cwd)
    ELSE search_upwards(directory(cwd).path)

OpenConfigFile ==
    /\ pc = "OpenConfig"
    /\ \E cwd \in {"ok", "ioerr"} :
         IF open_config_file(cwd).err = NoError
         THEN /\ cfgPath' = Some(open_config_file(cwd).path)
              /\ pc' = "ReadConfig"
              /\ UNCHANGED <<err, failedAt>>
         ELSE /\ Fail(open_config_file(cwd).err, "open_config")
              /\ UNCHANGED cfgPath
    /\ UNCHANGED <<fs, rawConfig>>
    /\ UNCHANGED <<args, input, output, patterns, keyOrder, src, rdPos, blocks, eof,
                   ast, carry, cursor, queue, segs, sink, nWrites, inState, outState,
                   dest, bak, tmp, exit>>

\* yaml_rust::Yaml: a value is a tag and a payload; the payload of a String
\* is its bytes, that of a Hash its entries <<key, value>> in document order
YStr(bytes) == [t |-> "String", v |-> bytes]
YHash(entries) == [t |-> "Hash", v |-> entries]
YInt == [t |-> "Integer", v |-> <<>>]
YArray == [t |-> "Array", v |-> <<>>]
YNull == [t |-> "Null", v |-> <<>>]
NoDoc == [t |-> "BadValue", v |-> <<>>]

\* Yaml::String("patterns")
pattern_key == YStr(<<112, 97, 116, 116, 101, 114, 110, 115>>)
\* another top-level key a configuration file may carry
other_key == YStr(<<111, 116, 104, 101, 114>>)

\* the map of a Yaml::Hash: key lookup, and Index::index, which is defined
\* for a key the map holds
HasKey(entries, k) == \E i \in DOMAIN entries : entries[i][1] = k
HashIndex(entries, k) ==
    entries[CHOOSE i \in DOMAIN entries : entries[i][1] = k][2]

\* the document that spells out a pattern table
TableDoc(t) ==
    LET o == CHOOSE o \in KeyOrders(t) : TRUE
    IN YHash(<< <<other_key, YInt>>,
                <<pattern_key,
                  YHash([i \in DOMAIN o |-> <<YStr(o[i]), YStr(t[o[i]])>>])>> >>)

\* documents that miss the shape of a configuration
IllShapedDocs ==
    { YStr(<<LetterA>>), YArray, YNull,
      YHash(<<>>),
      YHash(<< <<other_key, YInt>> >>),
      YHash(<< <<pattern_key, YStr(Alpha)>> >>),
      YHash(<< <<pattern_key, YArray>> >>),
      YHash(<< <<pattern_key, YHash(<< <<YInt, YStr(Alpha)>> >>)>> >>),
      YHash(<< <<pattern_key, YHash(<< <<YStr(<<LetterA>>), YInt>> >>)>> >>),
      YHash(<< <<pattern_key,
                 YHash(<< <<YStr(<<LetterA>>), YStr(Alpha)>>,
                          <<YStr(<<LetterB>>), YNull>> >>)>> >>) }

\* the first document of the configuration file
Docs == {TableDoc(t) : t \in Tables} \cup IllShapedDocs

\* Configuration::read_config_file, on the outcome of reading and YAML scanning
read_config_file(outcome) ==
    CASE outcome = "read_err" -> detailed_from_io(FSIO_CONFIG)
      [] outcome = "scan_err" -> detailed_from_yaml
      [] outcome = "no_docs" -> with_minor(usage, INVALID_CONFIG_FILE)
      [] outcome = "ok" -> NoError

ReadConfigFile ==
    /\ pc = "ReadConfig"
    /\ \E outcome \in {"read_err", "scan_err", "no_docs", "ok"} :
         IF read_config_file(outcome) = NoError
         THEN /\ \E doc \in Docs : rawConfig' = doc
              /\ pc' = "ParseConfig"
              /\ UNCHANGED <<err, failedAt>>
         ELSE /\ Fail(read_config_file(outcome), "config")
              /\ UNCHANGED rawConfig
    /\ UNCHANGED <<fs, cfgPath>>
    /\ UNCHANGED <<args, input, output, patterns, keyOrder, src, rdPos, blocks, eof,
                   ast, carry, cursor, queue, segs, sink, nWrites, inState, outState,
                   dest, bak, tmp, exit>>

\* Configuration::parse_pattern_entry: both the key and the value must be
\* strings
parse_pattern_entry(k, v) ==
    IF k.t = "String"
    THEN IF v.t = "String"
         THEN [res |-> "Ok", key |-> k.v, value |-> v.v]
         ELSE [res |-> "Err", key |-> <<>>, value |-> <<>>]
    ELSE [res |-> "Err", key |-> <<>>, value |-> <<>>]

\* the loop of parse_config over the entries of `patterns`: each entry is
\* inserted into the table, the first refused entry ends the loop
RECURSIVE parse_entries(_, _)
parse_entries(es, acc) ==
    IF es = <<>> THEN [res |-> "Ok", patterns |-> acc]
    ELSE LET e == parse_pattern_entry(Head(es)[1], Head(es)[2])
         IN IF e.res = "Err" THEN [res |-> "Err", patterns |-> acc]
            ELSE parse_entries(Tail(es),
                     [k \in DOMAIN acc \cup {e.key} |->
                         IF k = e.key THEN e.value ELSE acc[k]])

\* Configuration::parse_config: top_level[&pattern_key] indexes the mapping
\* and panics when the mapping has no such key
parse_config(raw_config) ==
    IF raw_config.t = "Hash"
    THEN IF ~HasKey(raw_config.v, pattern_key)
         THEN [res |-> "Panic", patterns |-> <<>>]
         ELSE IF HashIndex(raw_config.v, pattern_key).t = "Hash"
              THEN parse_entries(HashIndex(raw_config.v, pattern_key).v, <<>>)
              ELSE [res |-> "Err", patterns |-> <<>>]
    ELSE [res |-> "Err", patterns |-> <<>>]

\* the call of parse_config in Configuration::from_args: the table is kept
\* on success, an error is returned up to main, a panic aborts the process
ParseConfig ==
    /\ pc = "ParseConfig"
    /\ LET r == parse_config(rawConfig)
       IN CASE r.res = "Ok" ->
                 /\ patterns' = r.patterns
                 /\ pc' = "Run"
                 /\ UNCHANGED <<err, failedAt>>
            [] r.res = "Err" ->
                 /\ Fail(with_minor(usage, INVALID_CONFIG_FILE), "config")
                 /\ UNCHANGED patterns
            [] r.res = "Panic" ->
                 /\ pc' = "Panicked"
                 /\ UNCHANGED <<patterns, err, failedAt>>
    /\ UNCHANGED <<fs, cfgPath>>
    /\ UNCHANGED <<args, input, output, rawConfig, keyOrder, src, rdPos, blocks, eof,
                   ast, carry, cursor, queue, segs, sink, nWrites, inState, outState,
                   dest, bak, tmp, exit>>

----------------------------------------------------------------------------
(* conversion.rs: the automaton and the replacement table of run *)

\* AcAutomaton::new(config.patterns.keys().map(|p| format!("\\{}", p))):
\* automaton.patterns(), indexed from 1
Pats == [i \in 1..Len(keyOrder) |-> <<Esc>> \o keyOrder[i]]

\* a variant indexed against the order of the automaton's patterns
lookup_map_reversed ==
    [i \in DOMAIN Pats |-> patterns[Tail(Pats[Len(Pats) + 1 - i])]]
\* lookup_map: automaton.patterns().iter().map(|p| &config.patterns[&p[1 ..]])
lookup_map == [i \in DOMAIN Pats |-> patterns[Tail(Pats[i])]]

----------------------------------------------------------------------------
(* The matching automaton: a traversal state is the longest suffix of the   *)
(* bytes consumed since the last reset that is a prefix of some pattern     *)
(* (the trie node reached through goto and failure links).                  *)

StartState == <<>>

IsPatternPrefix(s) == \E i \in DOMAIN Pats : IsPrefix(s, Pats[i])

\* goto with failure links: the deepest trie node that is a suffix of st.b
NextState(st, b) ==
    LET t == Append(st, b)
        depth == CHOOSE k \in 0..Len(t) :
                   /\ IsPatternPrefix(SubSeq(t, Len(t) - k + 1, Len(t)))
                   /\ \A j \in (k + 1)..Len(t) :
                        ~IsPatternPrefix(SubSeq(t, Len(t) - j + 1, Len(t)))
    IN SubSeq(t, Len(t) - depth + 1, Len(t))

\* the patterns that end in state st (its own and those of its suffix chain)
Outputs(st) == {i \in DOMAIN Pats : IsSuffix(Pats[i], st)}
\* a variant that ignores the outputs inherited through failure links
HasMatchOwnOnly(st) == \E i \in DOMAIN Pats : Pats[i] = st
HasMatch(st) == Outputs(st) # {}

\* the one pattern index associated with an accepting state: the state's own
\* output before those inherited through failure links (the longest)
GetMatch(st) ==
    CHOOSE i \in Outputs(st) : \A j \in Outputs(st) : Len(Pats[j]) <= Len(Pats[i])

----------------------------------------------------------------------------
(* The chunked stream scanner: cursor, traversal state, carry bytes *)

Literal(start, bytes) ==
    [kind |-> "Literal", start |-> start, end |-> start + Len(bytes),
     pati |-> 0, bytes |-> bytes]
Matching(start, bytes, i) ==
    [kind |-> "Match", start |-> start, end |-> start + Len(bytes),
     pati |-> i, bytes |-> bytes]

ScanState(st, cy, cur, out) == [ast |-> st, carry |-> cy, cursor |-> cur, out |-> out]

\* one byte driven through the automaton; on a complete match the bytes before
\* it go out as a Literal, then the Match, and the traversal restarts
DriveByte(s, b) ==
    LET lit == Append(s.carry, b)
        st == NextState(s.ast, b)
    IN IF HasMatch(st)
       THEN LET p == GetMatch(st)
                n == Len(lit)
                m == Len(Pats[p])
                before == SubSeq(lit, 1, n - m)
                matched == SubSeq(lit, n - m + 1, n)
            IN ScanState(StartState, <<>>, s.cursor + n,
                         s.out
                           \o (IF before = <<>> THEN <<>>
                               ELSE <<Literal(s.cursor, before)>>)
                           \o <<Matching(s.cursor + n - m, matched, p)>>)
       ELSE ScanState(st, lit, s.cursor, s.out)

RECURSIVE DriveBytes(_, _)
DriveBytes(s, bytes) ==
    IF bytes = <<>> THEN s
    ELSE DriveBytes(DriveByte(s, Head(bytes)), Tail(bytes))

\* a variant that forgets the partial match at the end of a block
EndOfBlockResetting(s) ==
    ScanState(StartState, <<>>, s.cursor + Len(s.carry),
              s.out \o (IF s.carry = <<>> THEN <<>>
                        ELSE <<Literal(s.cursor, s.carry)>>))
\* end of the available bytes: the suffix still extending a possible match is
\* retained as the carry buffer, everything before it is flushed as a Literal
EndOfBlock(s) ==
    LET n == Len(s.carry)
        d == Len(s.ast)
        settled == SubSeq(s.carry, 1, n - d)
    IN ScanState(s.ast, SubSeq(s.carry, n - d + 1, n), s.cursor + (n - d),
                 s.out \o (IF settled = <<>> THEN <<>>
                           ELSE <<Literal(s.cursor, settled)>>))

\* a variant that discards the residual carry
EndOfDataDropping(s) == ScanState(StartState, <<>>, s.cursor + Len(s.carry), s.out)
\* end of data: a residual carry that never completed is the final Literal
EndOfData(s) ==
    ScanState(StartState, <<>>, s.cursor + Len(s.carry),
              s.out \o (IF s.carry = <<>> THEN <<>>
                        ELSE <<Literal(s.cursor, s.carry)>>))

\* one block of bytes through the scanner
ScanBlock(s, bytes) == EndOfBlock(DriveBytes(s, bytes))

\* the segment sequence of a single full read of the whole stream
ScanWhole(bytes) ==
    LET s0 == ScanState(StartState, <<>>, 0, <<>>)
    IN EndOfData(IF bytes = <<>> THEN s0 ELSE ScanBlock(s0, bytes)).out

----------------------------------------------------------------------------
(* conversion::run *)

Min(a, b) == IF a < b THEN a ELSE b

\* the automaton is built from the keys in the order the map delivers them
BuildAutomaton ==
    /\ pc = "Run"
    /\ keyOrder' \in KeyOrders(patterns)
    /\ pc' = "OpenOutput"
    /\ UNCHANGED <<fs, cfgPath, rawConfig>>
    /\ UNCHANGED <<args, input, output, patterns, src, rdPos, blocks, eof, ast,
                   carry, cursor, queue, segs, sink, nWrites, inState, outState,
                   dest, bak, tmp, err, failedAt, exit>>

\* Output::open / Output::open_path
OpenOutput ==
    /\ pc = "OpenOutput"
    /\ \/ /\ outState' = "open"
          /\ tmp' = IF output.kind = "InPlace" THEN "file" ELSE tmp
          /\ pc' = "OpenInput"
          /\ UNCHANGED <<err, failedAt>>
       \/ /\ output.kind # "Stdout"
          /\ Fail(detailed_from_io(FSIO_OUTPUT), "open_output")
          /\ UNCHANGED <<outState, tmp>>
    /\ UNCHANGED <<fs, cfgPath, rawConfig>>
    /\ UNCHANGED <<args, input, output, patterns, keyOrder, src, rdPos, blocks, eof,
                   ast, carry, cursor, queue, segs, sink, nWrites, inState,
                   dest, bak, exit>>

\* Input::open, then StreamChunks::with_capacity
OpenInput ==
    /\ pc = "OpenInput"
    /\ \/ /\ src' \in Inputs(input)
          /\ inState' = "open"
          /\ pc' = "Scan"
          /\ UNCHANGED <<err, failedAt>>
       \/ /\ input = "File"
          /\ Fail(detailed_from_io(FSIO_INPUT), "open_input")
          /\ UNCHANGED <<src, inState>>
    /\ UNCHANGED <<fs, cfgPath, rawConfig>>
    /\ UNCHANGED <<args, input, output, patterns, keyOrder, rdPos, blocks, eof,
                   ast, carry, cursor, queue, segs, sink, nWrites, outState,
                   dest, bak, tmp, exit>>

\* a variant tagging a read failure with the output code
from_stream_chunk_io_as_output == UniError_new(FSIO_OUTPUT, "Io")
\* impl From<StreamChunkError<UniError>> for UniError, the Io case
from_stream_chunk_io == UniError_new(FSIO_INPUT, "Io")

\* the scanner is asked for a segment and has none pending: it reads a block
ReadBlock ==
    /\ pc = "Scan" /\ queue = <<>> /\ ~eof
    /\ \/ \E n \in 1..Min(BlockCap, Len(src) - rdPos) :
            LET s == ScanBlock(ScanState(ast, carry, cursor, <<>>),
                               SubSeq(src, rdPos + 1, rdPos + n))
            IN /\ rdPos' = rdPos + n
               /\ blocks' = Append(blocks, n)
               /\ ast' = s.ast /\ carry' = s.carry /\ cursor' = s.cursor
               /\ queue' = s.out
               /\ UNCHANGED <<eof, inState, err, failedAt, pc>>
       \/ /\ rdPos = Len(src)
          /\ LET s == EndOfData(ScanState(ast, carry, cursor, <<>>))
             IN /\ ast' = s.ast /\ carry' = s.carry /\ cursor' = s.cursor
                /\ queue' = s.out
          /\ eof' = TRUE
          /\ UNCHANGED <<rdPos, blocks, inState, err, failedAt, pc>>
       \/ /\ Fail(from_stream_chunk_io, "read")
          /\ inState' = "closed"
          /\ UNCHANGED <<rdPos, blocks, eof, ast, carry, cursor, queue>>
    /\ UNCHANGED <<fs, cfgPath, rawConfig>>
    /\ UNCHANGED <<args, input, output, patterns, keyOrder, src, segs, sink, nWrites,
                   outState, dest, bak, tmp, exit>>

\* the bytes the chunk closure writes for a segment
OutBytes(seg) ==
    IF seg.kind = "Match" THEN lookup_map[seg.pati] ELSE seg.bytes

\* a variant in which the scan goes on after a failed write
WriteFailedIgnored ==
    /\ err' = UniError_new(FSIO_OUTPUT, "Io")
    /\ failedAt' = "write"
    /\ UNCHANGED <<pc, inState>>
\* the closure's result for a failed write_all, propagated by `?`
WriteFailed ==
    /\ Fail(UniError_new(FSIO_OUTPUT, "Io"), "write")
    /\ inState' = "closed"

\* chunks.all(|chunk| ...): the next segment goes to the closure, which writes it
HandleChunk ==
    /\ pc = "Scan" /\ queue # <<>>
    /\ LET seg == Head(queue)
           out_bytes == OutBytes(seg)
       IN /\ segs' = Append(segs, seg)
          /\ queue' = Tail(queue)
          /\ nWrites' = nWrites + 1
          /\ \/ /\ sink' = sink \o out_bytes
                /\ UNCHANGED <<pc, err, failedAt, inState>>
             \/ /\ \E k \in 0..(Len(out_bytes) - 1) :
                     sink' = sink \o SubSeq(out_bytes, 1, k)
                /\ WriteFailed
    /\ UNCHANGED <<fs, cfgPath, rawConfig>>
    /\ UNCHANGED <<args, input, output, patterns, keyOrder, src, rdPos, blocks, eof,
                   ast, carry, cursor, outState, dest, bak, tmp, exit>>

\* the segment sequence is exhausted: the region where the input is open ends
CloseInput ==
    /\ pc = "Scan" /\ queue = <<>> /\ eof
    /\ inState' = "closed"
    /\ pc' = "Close"
    /\ UNCHANGED <<fs, cfgPath, rawConfig>>
    /\ UNCHANGED <<args, input, output, patterns, keyOrder, src, rdPos, blocks, eof,
                   ast, carry, cursor, queue, segs, sink, nWrites, outState,
                   dest, bak, tmp, err, failedAt, exit>>

\* a variant in which close goes on to the move after a failed flush
FlushFailedIgnored ==
    /\ err' = from_io_error
    /\ failedAt' = "flush"
    /\ outState' = "closed"
    /\ pc' = IF output.kind = "InPlace" THEN "Rename" ELSE "Exit"
\* Output::close: try!(file.flush()) returning the error
FlushFailed ==
    /\ Fail(from_io_error, "flush")
    /\ UNCHANGED outState

\* Output::close up to the match on self: flush, then drop the stream
Close ==
    /\ pc = "Close"
    /\ \/ /\ outState' = "closed"
          /\ pc' = IF output.kind = "InPlace"
                   THEN (IF output.backup THEN "Backup" ELSE "Rename")
                   ELSE "Exit"
          /\ UNCHANGED <<err, failedAt>>
       \/ FlushFailed
    /\ UNCHANGED <<fs, cfgPath, rawConfig>>
    /\ UNCHANGED <<args, input, output, patterns, keyOrder, src, rdPos, blocks, eof,
                   ast, carry, cursor, queue, segs, sink, nWrites, inState,
                   dest, bak, tmp, exit>>

\* Output::close_in_place, the backup: replace_atomic(dest_path, backup_path)
Backup ==
    /\ pc = "Backup"
    /\ \/ /\ bak' = dest
          /\ dest' = "missing"
          /\ pc' = "Rename"
          /\ UNCHANGED <<err, failedAt>>
       \/ /\ Fail(detailed_from_io(FSIO_OUTPUT_BACKUP), "backup")
          /\ UNCHANGED <<dest, bak>>
    /\ UNCHANGED <<fs, cfgPath, rawConfig>>
    /\ UNCHANGED <<args, input, output, patterns, keyOrder, src, rdPos, blocks, eof,
                   ast, carry, cursor, queue, segs, sink, nWrites, inState, outState,
                   tmp, exit>>

\* Output::close_in_place, the move: replace_atomic(tmp_path, dest_path)
Rename ==
    /\ pc = "Rename"
    /\ \/ /\ dest' = "new"
          /\ tmp' = "moved"
          /\ pc' = "Exit"
          /\ UNCHANGED <<err, failedAt>>
       \/ /\ Fail(detailed_from_io(FSIO_OUTPUT), "rename")
          /\ UNCHANGED <<dest, tmp>>
    /\ UNCHANGED <<fs, cfgPath, rawConfig>>
    /\ UNCHANGED <<args, input, output, patterns, keyOrder, src, rdPos, blocks, eof,
                   ast, carry, cursor, queue, segs, sink, nWrites, inState, outState,
                   bak, exit>>

----------------------------------------------------------------------------
(* common.rs *)

\* handle_program_exit
HandleProgramExit ==
    /\ pc = "Exit"
    /\ exit' = IF err = NoError THEN 0 ELSE error_code(err)
    /\ pc' = "Exited"
    /\ UNCHANGED <<fs, cfgPath, rawConfig>>
    /\ UNCHANGED <<args, input, output, patterns, keyOrder, src, rdPos, blocks, eof,
                   ast, carry, cursor, queue, segs, sink, nWrites, inState, outState,
                   dest, bak, tmp, err, failedAt>>

----------------------------------------------------------------------------

\* the state main starts in, on file system f and arguments a
Start(f, a) ==
    /\ pc = "InputFromArgs"
    /\ fs = f
    /\ args = a
    /\ input = "None"
    /\ output = NoOutput
    /\ cfgPath = None
    /\ rawConfig = NoDoc
    /\ patterns = <<>>
    /\ keyOrder = <<>>
    /\ src = <<>>
    /\ rdPos = 0
    /\ blocks = <<>>
    /\ eof = FALSE
    /\ ast = StartState
    /\ carry = <<>>
    /\ cursor = 0
    /\ queue = <<>>
    /\ segs = <<>>
    /\ sink = <<>>
    /\ nWrites = 0
    /\ inState = "none"
    /\ outState = "none"
    /\ dest = "orig"
    /\ bak = "none"
    /\ tmp = "none"
    /\ err = NoError
    /\ failedAt = "none"
    /\ exit = NoExit

Init == \E f \in RunFsSet, a \in ArgsSet : Start(f, a)

Next ==
    \/ InputFromArgs
    \/ OutputFromArgs
    \/ OpenConfigFile
    \/ ReadConfigFile
    \/ ParseConfig
    \/ BuildAutomaton
    \/ OpenOutput
    \/ OpenInput
    \/ ReadBlock
    \/ HandleChunk
    \/ CloseInput
    \/ Close
    \/ Backup
    \/ Rename
    \/ HandleProgramExit

Spec == Init /\ [][Next]_vars

\* Configuration::from_args on its own, over every file system and
\* invocation, followed by the exit of a failed one
ConfigInit == \E f \in FsSet : \E a \in ConfigArgsSet(f) : Start(f, a)

ConfigNext ==
    \/ InputFromArgs
    \/ OutputFromArgs
    \/ OpenConfigFile
    \/ ReadConfigFile
    \/ ParseConfig
    \/ HandleProgramExit

SpecConfig == ConfigInit /\ [][ConfigNext]_vars

----------------------------------------------------------------------------
(* Properties *)

RECURSIVE ConcatBytes(_)
ConcatBytes(ss) ==
    IF ss = <<>> THEN <<>> ELSE Head(ss).bytes \o ConcatBytes(Tail(ss))

ScanFinished == eof /\ queue = <<>>
RunSucceeded == pc \in {"Exit", "Exited"} /\ err = NoError

HasKind(ss, k) == \E i \in DOMAIN ss : ss[i].kind = k

\* a non-empty proper prefix of a pattern
IsProperPatternPrefix(s) ==
    s # <<>> /\ \E i \in DOMAIN Pats : IsPrefix(s, Pats[i]) /\ s # Pats[i]

\* C1: the segments handed to the driver, with the segments still pending and
\* the carried bytes, always spell exactly the bytes read so far, and once the
\* source is exhausted the handed segments spell the whole input.
C1_LosslessPartition ==
    /\ ConcatBytes(segs) \o ConcatBytes(queue) \o carry = SubSeq(src, 1, rdPos)
    /\ ScanFinished => ConcatBytes(segs) = src

\* a finished scan, delivered in several blocks, with a match and with an
\* uncompleted pattern prefix as the last segment
C1_Witness ==
    /\ ScanFinished
    /\ Len(blocks) >= 2
    /\ HasKind(segs, "Match")
    /\ segs[Len(segs)].kind = "Literal"
    /\ IsProperPatternPrefix(segs[Len(segs)].bytes)

\* what the configuration maps the matched token to
Expected(seg) ==
    IF seg.kind = "Match" THEN patterns[Tail(seg.bytes)] ELSE seg.bytes

RECURSIVE ConcatExpected(_)
ConcatExpected(ss) ==
    IF ss = <<>> THEN <<>> ELSE Expected(Head(ss)) \o ConcatExpected(Tail(ss))

\* C2: after a successful run the sink holds, in emission order, each Literal
\* unchanged and for each Match the replacement configured for the bare token
\* of the matched pattern; every pattern index is within lookup_map.
C2_CorrectSubstitution ==
    RunSucceeded =>
        /\ \A i \in DOMAIN segs :
             segs[i].kind = "Match" =>
                /\ segs[i].pati \in DOMAIN lookup_map
                /\ Tail(segs[i].bytes) \in DOMAIN patterns
                /\ lookup_map[segs[i].pati] = patterns[Tail(Pats[segs[i].pati])]
        /\ sink = ConcatExpected(segs)

\* a successful run that replaced both tokens of the table, the keys having
\* been delivered in either order
C2_Witness ==
    /\ RunSucceeded
    /\ \E i, j \in DOMAIN segs :
         /\ segs[i].kind = "Match" /\ segs[j].kind = "Match"
         /\ segs[i].pati = 1 /\ segs[j].pati = 2
         /\ lookup_map[1] # lookup_map[2]

\* adjacent Literal segments merged into one
RECURSIVE Coalesce(_)
Coalesce(ss) ==
    IF Len(ss) < 2 THEN ss
    ELSE IF ss[1].kind = "Literal" /\ ss[2].kind = "Literal"
         THEN Coalesce(<<Literal(ss[1].start, ss[1].bytes \o ss[2].bytes)>>
                          \o SubSeq(ss, 3, Len(ss)))
         ELSE <<ss[1]>> \o Coalesce(Tail(ss))

\* C3 as stated: however the input was delivered, the emitted segment sequence
\* is the segment sequence of a single full read.
C3_SameSegmentsAsFullRead ==
    ScanFinished => segs = ScanWhole(src)

\* C3, amended: however the input was delivered, the Match segments (pattern,
\* position, order) and the bytes of every maximal run of Literal segments are
\* those of a single full read; only the cuts between adjacent Literal
\* segments follow the block boundaries.
C3_BlockIndependentUpToLiteralCuts ==
    ScanFinished => Coalesce(segs) = Coalesce(ScanWhole(src))

\* two reads whose split falls inside a pattern occurrence that is matched
C3_Witness ==
    /\ ScanFinished
    /\ Len(blocks) = 2
    /\ \E k \in DOMAIN segs :
         /\ segs[k].kind = "Match"
         /\ segs[k].start < blocks[1] /\ blocks[1] < segs[k].end

\* pattern i occurs in the input at offset t
Occurs(i, t) ==
    /\ t >= 0 /\ t + Len(Pats[i]) <= Len(src)
    /\ SubSeq(src, t + 1, t + Len(Pats[i])) = Pats[i]

\* where the traversal last restarted before segment k: the end of the
\* previous Match segment
PrevMatchEnd(k) ==
    LET before == {j \in 1..(k - 1) : segs[j].kind = "Match"}
    IN IF before = {} THEN 0
       ELSE segs[CHOOSE j \in before : \A h \in before : h <= j].end

Offsets == 0..Len(src)

\* segments follow one another without gap or overlap
Contiguous ==
    \A k \in DOMAIN segs :
        /\ segs[k].start = (IF k = 1 THEN 0 ELSE segs[k - 1].end)
        /\ segs[k].end = segs[k].start + Len(segs[k].bytes)
        /\ segs[k].bytes # <<>>

\* among the patterns starting where Match segment k starts, it is the shortest
ShortestAtStart(k) ==
    \A i \in DOMAIN Pats :
        Occurs(i, segs[k].start) => Len(Pats[segs[k].pati]) <= Len(Pats[i])

\* the example of the claim: \a and \ab on \ab
PrefixExample ==
    (ScanFinished /\ patterns = TablePrefix /\ src = <<Esc, LetterA, LetterB>>) =>
        /\ Len(segs) = 2
        /\ segs[1].kind = "Match" /\ segs[1].bytes = <<Esc, LetterA>>
        /\ segs[2].kind = "Literal" /\ segs[2].bytes = <<LetterB>>

NoInnerEscape ==
    \A key \in DOMAIN patterns : \A n \in DOMAIN key : key[n] # Esc

StatusOf(e) == e.major * 10 + e.minor

\* C5: once a write of a segment has failed, nothing more is written, read,
\* handed over or closed, no file is backed up or renamed, and the error
\* carries the output minor code; the run goes straight to the exit.
C5_WriteFailureAborts ==
    /\ [](failedAt = "write" =>
            /\ err.minor = FSIO_OUTPUT
            /\ pc \in {"Exit", "Exited"}
            /\ outState = "open"
            /\ dest = "orig" /\ bak = "none" /\ tmp # "moved")
    /\ [][failedAt = "write" =>
            UNCHANGED <<sink, nWrites, segs, queue, rdPos, blocks, eof, ast, carry,
                        cursor, outState, dest, bak, tmp, err, failedAt>>]_vars

\* a write failed while segments were pending and input was unread, and the
\* process has exited
C5_Witness ==
    /\ failedAt = "write" /\ pc = "Exited"
    /\ queue # <<>> /\ rdPos < Len(src)
    /\ exit = 13

InputFailures == {"verify_input", "open_input", "read"}

\* C7 as stated: every failure of the input source, at opening or at reading,
\* gives an exit status in 20..29.
C7_InputFailuresIn2x ==
    failedAt \in InputFailures => StatusOf(err) \in 20..29

\* C7, amended: every I/O failure of the input source carries the input minor
\* code; a failure to stat or open the input path is an FsIo error, status 22;
\* a failure to read a block is an Io error, major 1, status 12.
C7_InputFailuresMinorInput ==
    /\ failedAt \in InputFailures => err.minor = FSIO_INPUT
    /\ failedAt \in {"verify_input", "open_input"} =>
          err.data = "FsIo" /\ StatusOf(err) = 22
    /\ failedAt = "read" =>
          err.data = "Io" /\ err.major = 1 /\ StatusOf(err) = 12
    /\ (failedAt \in InputFailures /\ pc = "Exited") => exit = StatusOf(err)

\* a block read failed after part of the input had been scanned
C7_Witness ==
    /\ failedAt = "read" /\ pc = "Exited" /\ exit = 12
    /\ rdPos > 0

OutputFailures == {"open_output", "write", "flush", "backup", "rename"}

\* C8: every failure of the sink (open, write, flush, backup, rename) carries
\* an output minor code, the backup step the backup code.
C8_OutputFailuresMinorOutput ==
    failedAt \in OutputFailures =>
        /\ err.minor \in {FSIO_OUTPUT, FSIO_OUTPUT_BACKUP}
        /\ failedAt = "backup" => err.minor = FSIO_OUTPUT_BACKUP

AllWritten ==
    /\ eof /\ queue = <<>> /\ carry = <<>>
    /\ ConcatBytes(segs) = src
    /\ nWrites = Len(segs)
    /\ sink = ConcatExpected(segs)

\* C9: in an in-place run the backup and the rename are reached only after
\* end-of-data, the writing of every segment, the closing of the input and the
\* flush and close of the sink, in that order; after a failed read, write or
\* flush the destination and the backup path are untouched.
C9_InPlaceOrdering ==
    /\ (pc \in {"Backup", "Rename"} \/ bak # "none" \/ dest # "orig" \/ tmp = "moved") =>
          /\ output.kind = "InPlace"
          /\ AllWritten
          /\ inState = "closed" /\ outState = "closed"
          /\ failedAt \notin {"read", "write", "flush"}
    /\ outState = "closed" => inState = "closed" /\ AllWritten
    /\ (inState = "closed" /\ failedAt \notin {"read", "write"}) => AllWritten
    /\ dest = "new" => (tmp = "moved" /\ (output.backup <=> bak = "orig"))
    /\ failedAt \in {"open_output", "open_input", "read", "write", "flush"} =>
          dest = "orig" /\ bak = "none" /\ tmp # "moved"

\* an in-place run with backup replaced the destination by a converted stream
C9_Witness ==
    /\ pc = "Exited" /\ dest = "new" /\ bak = "orig"
    /\ HasKind(segs, "Match") /\ Len(blocks) >= 2

\* C10: a usage error carries major code 0, unlike Io (1), FsIo (2),
\* YamlScan (3) and Internal (9), and exits with status 0*10 + minor.
C10_UsageMajorZero ==
    err.data = "Usage" =>
        /\ err.major = default_code_major_minor("Usage")[1]
        /\ err.major = 0
        /\ pc = "Exited" => exit = err.minor

\* the shape parse_config expects: a mapping whose `patterns` entry is a
\* mapping from strings to strings
WellShaped(doc) ==
    /\ doc.t = "Hash"
    /\ \E i \in DOMAIN doc.v :
          /\ doc.v[i][1] = pattern_key
          /\ doc.v[i][2].t = "Hash"
          /\ \A j \in DOMAIN doc.v[i][2].v :
                /\ doc.v[i][2].v[j][1].t = "String"
                /\ doc.v[i][2].v[j][2].t = "String"

\* parse_config has been applied to the document read
Parsed == rawConfig # NoDoc /\ pc # "ParseConfig"

\* C11: for every document that misses the shape (top level not a mapping, no
\* `patterns` key, `patterns` not a mapping, a key or value not a string)
\* parse_config returns the usage error with minor INVALID_CONFIG_FILE: the
\* error reaches main, the process does not panic, and no table is built
C11_IllShapedIsInvalidConfig ==
    (Parsed /\ ~WellShaped(rawConfig)) =>
        /\ pc \in {"Exit", "Exited"}
        /\ err.data = "Usage"
        /\ err.minor = INVALID_CONFIG_FILE
        /\ patterns = <<>>

\* a directory and its ancestors, nearest first, the root last
Ancestors(d) == [i \in 1..(Len(d) + 1) |-> SubSeq(d, 1, Len(d) + 1 - i)]

\* the directory that contains the input: the current directory for
\* standard input
ContainingDir ==
    IF input = "Stdin" THEN fs.cwd
    ELSE Resolve(parent(args.arg_input[1])[1])

\* open_config_file has returned
ConfigSearched == cfgPath # None \/ failedAt = "open_config"

\* the search of the containing directory and its ancestors up to the root
\* returns the nearest CFGNAME, and reports NO_CONFIG_FILE only when none of
\* them holds one
SearchesUpToRoot ==
    LET anc == Ancestors(ContainingDir)
    IN /\ cfgPath # None =>
             \E i \in DOMAIN anc :
                /\ Resolve(cfgPath[1]) = Append(anc[i], CFGNAME)
                /\ fs.cfg[anc[i]] = "file"
                /\ \A j \in 1..(i - 1) : fs.cfg[anc[j]] # "file"
       /\ (failedAt = "open_config" /\ err.data = "Usage") =>
             /\ err.minor = NO_CONFIG_FILE
             /\ \A i \in DOMAIN anc : fs.cfg[anc[i]] # "file"

\* C12: open_config_file terminates for every input, visits the input's
\* containing directory and then each ancestor up to the file-system root
\* (relative and absolute input paths, the current directory for standard
\* input), returns the first CFGNAME that exists, and returns NO_CONFIG_FILE
\* only when no directory up to the root holds one
C12_SearchesUpToRoot == ConfigSearched => SearchesUpToRoot

\* the configuration file opened is CONFIG itself, or the CFGNAME of the
\* directory of CONFIG or of one of its ancestors
TakenFrom(config) ==
    \/ Resolve(cfgPath[1]) = Resolve(config)
    \/ \E d \in {Resolve(config), Resolve(parent(config)[1])} :
          \E i \in DOMAIN Ancestors(d) :
             Resolve(cfgPath[1]) = Append(Ancestors(d)[i], CFGNAME)

\* C13: --config=CONFIG is honoured: when it is given, the configuration is
\* taken from CONFIG (the specific file, or the origin of the upward search)
\* instead of from the directory of the input
C13_ConfigOptionHonoured ==
    (cfgPath # None /\ args.flag_config # None) =>
        TakenFrom(args.flag_config[1])

\* an in-place run has ended
InPlaceEnded == output.kind = "InPlace" /\ pc \in {"Exit", "Exited"}

\* C14: after an in-place run ends, with success or with a failure at any
\* step (open, read, write, flush, backup, final rename), the destination
\* path exists and holds the complete original or the complete converted
\* content; a failed final rename does not leave it missing
C14_DestinationNeverLost == InPlaceEnded => dest \in {"orig", "new"}

\* check_output_path returned OtherFile with a path derived from <output>,
\* which it does for a directory alone: a file, existing or new, keeps the
\* path as given
DerivedOutput ==
    /\ output.kind = "OtherFile"
    /\ output.path # args.arg_output[1]

\* C15: when <output> names an existing directory and an input file is
\* given, check_output_path returns OtherFile(path) where path is that
\* directory, every component kept, followed by the input's file name; when
\* no input file name is known it returns MISSING_OUTPUT_FILE_NAME
C15_OutputInsideDirectory ==
    /\ DerivedOutput =>
          /\ args.arg_input # None
          /\ output.path = [abs |-> args.arg_output[1].abs,
                            comps |-> Append(args.arg_output[1].comps,
                                             Last(args.arg_input[1].comps))]
    /\ (failedAt = "check_output" /\ err.data = "Usage"
          /\ err.minor = MISSING_OUTPUT_FILE_NAME) => args.arg_input = None


====
